---------------------------- MODULE Spec2Model ----------------------------
(***************************************************************************)
(* Model of src/src/main.c (uvc-gadget, built with HAVE_LIBCAMERA): the    *)
(* option loop with its validation of the camera tuning options, the       *)
(* acquisition of the function configuration, the event context, the       *)
(* video source and the stream, the SIGINT handler, and the teardown.      *)
(*                                                                         *)
(* A pointer is a tuple: a char * is the tuple of the characters of its    *)
(* text, a pointer to an object is the one-element tuple of the object's   *)
(* name, and NULL is <<"NULL">>. A float is a record [k, n]: k = "num"      *)
(* with n the value in units of 10^-FracDigits, k = "inf" with n the sign, *)
(* or k = "nan".                                                           *)
(* The input texts carry at most FracDigits fractional digits; every such  *)
(* decimal near the bounds -1, 0, 1, 16, 32 rounds to a binary32 value on  *)
(* the same side of the bound, so the comparisons below are the ones the   *)
(* program makes.                                                          *)
(***************************************************************************)
EXTENDS Integers, Sequences, FiniteSets, TLC

\* ------------------------------------------------------------- bounds
\* options on the command line
MaxArgs == 3
\* distinct tuning options among them
MaxTuning == 1
\* options on the command line when only the option loop is explored
MaxOptArgs == 2
\* SIGINT deliveries in one run
MaxSignals == 1
\* fractional digits of a numeric text
FracDigits == 1

Scale == 10 ^ FracDigits

NULL == <<"NULL">>
\* a pointer to the object called name
Ptr(name) == <<name>>

\* ------------------------------------------------------------- floats
NaN == [k |-> "nan", n |-> 0]
Num(n) == [k |-> "num", n |-> n]
Inf(s) == [k |-> "inf", n |-> s]

IsNaN(f) == f.k = "nan"

\* f < g on binary32 values: false when either side is NaN
FLess(f, g) ==
    IF f.k = "nan" \/ g.k = "nan" THEN FALSE
    ELSE IF f.k = "inf" THEN f.n < 0 /\ ~(g.k = "inf" /\ g.n < 0)
    ELSE IF g.k = "inf" THEN g.n > 0
    ELSE f.n < g.n

FGreater(f, g) == FLess(g, f)

\* ------------------------------------------------------------- tables
\* the texts of the mode tables
s_normal == <<"n", "o", "r", "m", "a", "l">>
s_macro == <<"m", "a", "c", "r", "o">>
s_fast == <<"f", "a", "s", "t">>
s_auto == <<"a", "u", "t", "o">>
s_incandescent == <<"i", "n", "c", "a", "n", "d", "e", "s", "c", "e", "n", "t">>
s_tungsten == <<"t", "u", "n", "g", "s", "t", "e", "n">>
s_fluorescent == <<"f", "l", "u", "o", "r", "e", "s", "c", "e", "n", "t">>
s_indoor == <<"i", "n", "d", "o", "o", "r">>
s_daylight == <<"d", "a", "y", "l", "i", "g", "h", "t">>
s_cloudy == <<"c", "l", "o", "u", "d", "y">>
s_short == <<"s", "h", "o", "r", "t">>
s_sport == <<"s", "p", "o", "r", "t">>
s_long == <<"l", "o", "n", "g">>

camera_valid_af_range_modes == <<s_normal, s_macro, NULL>>
camera_valid_af_speed_modes == <<s_normal, s_fast, NULL>>
camera_valid_awb_modes ==
    <<s_auto, s_incandescent, s_tungsten, s_fluorescent, s_indoor,
      s_daylight, s_cloudy, NULL>>
camera_valid_exposure_modes == <<s_normal, s_short, s_sport, s_long, NULL>>

camera_valid_col_gain_range == <<Num(0 * Scale), Num(32 * Scale)>>
camera_valid_lens_pos_range == <<Num(0 * Scale), Num(32 * Scale)>>
camera_valid_brightness_range == <<Num((-1) * Scale), Num(1 * Scale)>>
camera_valid_contrast_range == <<Num(0 * Scale), Num(32 * Scale)>>
camera_valid_saturation_range == <<Num(0 * Scale), Num(32 * Scale)>>
camera_valid_sharpness_range == <<Num(0 * Scale), Num(16 * Scale)>>

\* strcmp(a, b) == 0: the same characters up to the end of both texts
RECURSIVE SameFrom(_, _, _)
SameFrom(a, b, i) ==
    IF i > Len(a) \/ i > Len(b) THEN i > Len(a) /\ i > Len(b)
    ELSE a[i] = b[i] /\ SameFrom(a, b, i + 1)

\* strcmp0 were the comparison to stop at the end of the first text
strcmp0_Prefix(a, b) ==
    /\ Len(a) <= Len(b)
    /\ \A i \in 1..Len(a) : a[i] = b[i]

strcmp0(a, b) == SameFrom(a, b, 1)

\* the loop of is_camera_mode_valid from index i on
RECURSIVE ModeScan(_, _, _)
ModeScan(mode, valid_modes, i) ==
    IF valid_modes[i] = NULL THEN 0
    ELSE IF strcmp0(mode, valid_modes[i]) THEN 1
    ELSE ModeScan(mode, valid_modes, i + 1)

is_camera_mode_valid(mode, valid_modes) == ModeScan(mode, valid_modes, 1)

\* ------------------------------------------------------------- sscanf
Digits == {"0", "1", "2", "3", "4", "5", "6", "7", "8", "9"}

DigitVal(c) ==
    CASE c = "0" -> 0 [] c = "1" -> 1 [] c = "2" -> 2 [] c = "3" -> 3
      [] c = "4" -> 4 [] c = "5" -> 5 [] c = "6" -> 6 [] c = "7" -> 7
      [] c = "8" -> 8 [] c = "9" -> 9

At(s, i) == IF i <= Len(s) THEN s[i] ELSE "EOS"

\* the digits of s from position i on: [n: their value, d: how many, next]
RECURSIVE ScanDigits(_, _, _, _)
ScanDigits(s, i, n, d) ==
    IF At(s, i) \in Digits
    THEN ScanDigits(s, i + 1, n * 10 + DigitVal(s[i]), d + 1)
    ELSE [n |-> n, d |-> d, next |-> i]

\* the digits after the decimal point, to FracDigits places; digits beyond
\* them are consumed and do not change the value
RECURSIVE ScanFrac(_, _, _, _)
ScanFrac(s, i, n, d) ==
    IF At(s, i) \in Digits
    THEN ScanFrac(s, i + 1,
                  IF d < FracDigits THEN n * 10 + DigitVal(s[i]) ELSE n,
                  d + 1)
    ELSE [n |-> n, d |-> d, next |-> i]

RECURSIVE Pow10(_)
Pow10(k) == IF k <= 0 THEN 1 ELSE 10 * Pow10(k - 1)

\* one %f conversion of s at position i:
\* [ok, eof: input ended before any character, val, next]
ScanFloat(s, i) ==
    LET neg == At(s, i) = "-"
        j == IF At(s, i) \in {"-", "+"} THEN i + 1 ELSE i
        sgn == IF neg THEN -1 ELSE 1
        fail == [ok |-> FALSE, eof |-> i > Len(s), val |-> NaN, next |-> i]
    IN  IF At(s, j) = "n" /\ At(s, j + 1) = "a" /\ At(s, j + 2) = "n"
        THEN [ok |-> TRUE, eof |-> FALSE, val |-> NaN, next |-> j + 3]
        ELSE IF At(s, j) = "i" /\ At(s, j + 1) = "n" /\ At(s, j + 2) = "f"
        THEN [ok |-> TRUE, eof |-> FALSE, val |-> Inf(sgn), next |-> j + 3]
        ELSE
          LET ip == ScanDigits(s, j, 0, 0)
              fp == IF At(s, ip.next) = "."
                    THEN ScanFrac(s, ip.next + 1, 0, 0)
                    ELSE [n |-> 0, d |-> 0, next |-> ip.next]
              kept == IF fp.d < FracDigits THEN fp.d ELSE FracDigits
          IN  IF ip.d + fp.d = 0 THEN fail
              ELSE [ok |-> TRUE, eof |-> FALSE,
                    val |-> Num(sgn * (ip.n * Scale
                                       + fp.n * Pow10(FracDigits - kept))),
                    next |-> fp.next]

\* sscanf(optarg, "%f", &value): [ret, value]; ret is EOF (-1) on empty input
sscanf_f(s) ==
    LET a == ScanFloat(s, 1)
    IN  IF a.ok THEN [ret |-> 1, v1 |-> a.val]
        ELSE [ret |-> IF a.eof THEN -1 ELSE 0, v1 |-> NaN]

\* sscanf(optarg, "%f,%f", &r_value, &b_value): [ret, r_value, b_value]
sscanf_ff(s) ==
    LET a == ScanFloat(s, 1)
    IN  IF ~a.ok
        THEN [ret |-> IF a.eof THEN -1 ELSE 0, v1 |-> NaN, v2 |-> NaN]
        ELSE IF At(s, a.next) # ","
        THEN [ret |-> 1, v1 |-> a.val, v2 |-> NaN]
        ELSE LET b == ScanFloat(s, a.next + 1)
             IN  IF b.ok THEN [ret |-> 2, v1 |-> a.val, v2 |-> b.val]
                 ELSE [ret |-> 1, v1 |-> a.val, v2 |-> NaN]

\* ------------------------------------------------------------- inputs
\* the smallest fractional step of a numeric text: ".1", ".01", ...
Eps == <<".">> \o [i \in 1..(FracDigits - 1) |-> "0"] \o <<"1">>

ModeTexts ==
    {s_normal, s_macro, s_fast, s_auto, s_incandescent, s_tungsten,
     s_fluorescent, s_indoor, s_daylight, s_cloudy, s_short, s_sport, s_long,
     <<"N", "o", "r", "m", "a", "l">>, <<"s", "p", "o", "r", "t", "s">>, <<"s", "h", "o", "r">>, <<>>}

FloatTexts ==
    { <<"0">>, <<"-", "0">> \o Eps, <<"0">> \o Eps,
      <<"1">>, <<"1">> \o Eps, <<"-", "1">>, <<"-", "1">> \o Eps,
      <<"1", "6">>, <<"1", "6">> \o Eps,
      <<"3", "2">>, <<"3", "2">> \o Eps,
      <<>>, <<"x">>, <<"1", "x">>, <<".">>, <<"-">>,
      <<"n", "a", "n">>, <<"i", "n", "f">>, <<"-", "i", "n", "f">> }

GainTexts ==
    { <<"1", ",", "2">>, <<"0", ",", "3", "2">>, <<"3", "2", ",", "0">>,
      <<"3", "2">> \o Eps \o <<",", "1">>,
      <<"1", ",", "-", "0">> \o Eps,
      <<"3", "3", ",", "1">>,
      <<"1">>, <<"1", ",">>, <<"1", ";", "2">>, <<",", "1">>,
      <<"1", ",", "x">>, <<"1", ",", "2", "x">>, <<>>,
      <<"n", "a", "n", ",", "1">>, <<"1", ",", "n", "a", "n">> }

ModeOpts == {"OPT_AF_RANGE", "OPT_AF_SPEED", "OPT_AWB_MODE", "OPT_EXP_MODE"}
FloatOpts ==
    {"OPT_LENS_POS", "OPT_BRIGHTNS", "OPT_CONTRAST", "OPT_SATURATN",
     "OPT_SHRPNESS"}
TuningOpts == ModeOpts \cup FloatOpts \cup {"OPT_COL_GAIN", "OPT_DBG_RPRT"}

OptionResults ==
    {[opt |-> "c", arg |-> <<"0">>],
     [opt |-> "d", arg |-> <<"/", "d", "e", "v", "/", "v", "i", "d", "e", "o", "0">>],
     [opt |-> "i", arg |-> <<"a", ".", "j", "p", "g">>],
     [opt |-> "s", arg |-> <<"s", "l", "i", "d", "e", "s">>],
     [opt |-> "h", arg |-> NULL], [opt |-> "?", arg |-> NULL],
     [opt |-> "OPT_DBG_RPRT", arg |-> NULL]}

\* what one call of getopt_long can return, the option and its optarg:
\* the options whose argument is used as it is ...
StringResults ==
    OptionResults \cup {[opt |-> o, arg |-> t] : o \in ModeOpts, t \in ModeTexts}
\* ... and the options whose argument is scanned for floats
NumericResults ==
    {[opt |-> o, arg |-> t] : o \in FloatOpts, t \in FloatTexts}
    \cup {[opt |-> "OPT_COL_GAIN", arg |-> t] : t \in GainTexts}

\* the same with fewer texts, for the runs that go on past the option loop
RunModeTexts == {s_normal, s_auto, <<"N", "o", "r", "m", "a", "l">>}
RunFloatTexts ==
    { <<"1">>, <<"3", "2">> \o Eps, <<"x">>, <<"n", "a", "n">> }
RunGainTexts ==
    { <<"1", ",", "2">>, <<"3", "3", ",", "1">>, <<"1">>,
      <<"n", "a", "n", ",", "1">> }
RunStringResults ==
    OptionResults
    \cup {[opt |-> o, arg |-> t] : o \in ModeOpts, t \in RunModeTexts}
RunNumericResults ==
    {[opt |-> o, arg |-> t] : o \in FloatOpts, t \in RunFloatTexts}
    \cup {[opt |-> "OPT_COL_GAIN", arg |-> t] : t \in RunGainTexts}

\* ------------------------------------------------------------- state
VARIABLES
    pc,                     \* the statement of main() that runs next
    opt, optarg, nopts,     \* getopt_long: its result, its argument, options read
    argv_strings,           \* the options read so far, with their arguments:
    argv_numerics,          \*   those used as strings, those scanned for floats
    function, camera, cap_device, img_path, slideshow_dir,
    camera_arguments_opts,
    fc, stream, src, events, ret,
    sigint_events,          \* the static pointer the handler reads
    sigint_armed,           \* signal(SIGINT, sigint_handler) has run
    exit_status,            \* what main() returned; -1 while it runs
    exit_at,                \* the return statement main() left by
    calls,                  \* the library calls main() made, in order
    sigint_calls,           \* the calls the handler made
    err, out                \* what was written to stderr and to stdout

optv == <<opt, optarg, nopts, argv_strings, argv_numerics>>
intents == <<function, camera, cap_device, img_path, slideshow_dir>>
resources == <<fc, stream, src, events, sigint_events, sigint_armed>>
logs == <<calls, sigint_calls, err, out>>
exitv == <<ret, exit_status, exit_at>>
vars == <<pc, optv, intents, camera_arguments_opts, resources, exitv, logs>>

Init ==
    /\ pc = "getopt"
    /\ opt = "none" /\ optarg = NULL /\ nopts = 0
    /\ argv_strings = {} /\ argv_numerics = {}
    /\ function = NULL /\ camera = NULL
    /\ cap_device = NULL /\ img_path = NULL /\ slideshow_dir = NULL
    /\ camera_arguments_opts =
         [af_range_mode |-> NULL, af_speed_mode |-> NULL, awb_mode |-> NULL,
          exposure_mode |-> NULL,
          colour_gain_r |-> NaN, colour_gain_b |-> NaN, lens_position |-> NaN,
          brightness |-> NaN, contrast |-> NaN, saturation |-> NaN,
          sharpness |-> NaN, debug_report_enabled |-> 0]
    /\ fc = Ptr("uninitialized") /\ stream = NULL /\ src = NULL
    /\ events = [state |-> "uninit", done |-> FALSE]
    /\ ret = 0
    /\ sigint_events = NULL /\ sigint_armed = FALSE
    /\ exit_status = -1 /\ exit_at = "none"
    /\ calls = <<>> /\ sigint_calls = <<>>
    /\ err = <<>> /\ out = <<>>

\* return v; from main() at the statement named by site
Return(v, site) ==
    /\ pc' = "exited"
    /\ exit_status' = v
    /\ exit_at' = site

\* RejectOption were the call of usage() left out
RejectOption_NoUsage(msg) ==
    /\ err' = Append(err, msg)
    /\ Return(1, "validation")
    /\ UNCHANGED <<camera_arguments_opts, ret, out>>

\* usage(argv[0]) after the diagnostic msg, then return 1
RejectOption(msg) ==
    /\ err' = err \o <<msg, "usage">>
    /\ Return(1, "validation")
    /\ UNCHANGED <<camera_arguments_opts, ret, out>>

Break == pc' = "getopt" /\ UNCHANGED <<exit_status, exit_at>>

\* ------------------------------------------------------------- option loop
\* the distinct tuning options read so far
TuningRead ==
    Cardinality({r \in argv_strings : r.opt \in TuningOpts})
    + Cardinality(argv_numerics)

\* opt = getopt_long(...): the next option of at most max, of which at most
\* maxTuning tuning options, or -1 after the last one (getopt_long clears
\* optarg on every call)
GetoptCall(strings, numerics, max, maxTuning) ==
    /\ pc = "getopt"
    /\ \/ /\ nopts < max
          /\ \/ \E r \in strings :
                   /\ r.opt \in TuningOpts => TuningRead < maxTuning
                   /\ opt' = r.opt /\ optarg' = r.arg
                   /\ argv_strings' = argv_strings \cup {r}
                   /\ UNCHANGED argv_numerics
             \/ \E r \in numerics :
                   /\ TuningRead < maxTuning
                   /\ opt' = r.opt /\ optarg' = r.arg
                   /\ argv_numerics' = argv_numerics \cup {r}
                   /\ UNCHANGED argv_strings
          /\ nopts' = nopts + 1
          /\ pc' = "switch"
       \/ /\ opt' = "-1"
          /\ optarg' = NULL
          /\ pc' = "set_function"
          /\ UNCHANGED <<nopts, argv_strings, argv_numerics>>
    /\ UNCHANGED <<intents, camera_arguments_opts, resources, exitv, logs>>

Getopt == GetoptCall(RunStringResults, RunNumericResults, MaxArgs, MaxTuning)

GetoptAny == GetoptCall(StringResults, NumericResults, MaxOptArgs, MaxOptArgs)

CaseCamera ==
    /\ pc = "switch" /\ opt = "c"
    /\ camera' = optarg
    /\ Break
    /\ UNCHANGED <<optv, function, cap_device, img_path, slideshow_dir,
                   camera_arguments_opts, resources, ret, logs>>

\* a case of an enumerated mode: the allow-list, the field, the diagnostic
ModeCase(o, valid_modes, field, msg) ==
    /\ pc = "switch" /\ opt = o
    /\ IF is_camera_mode_valid(optarg, valid_modes) = 0
       THEN RejectOption(msg)
       ELSE /\ camera_arguments_opts' =
                 [camera_arguments_opts EXCEPT ![field] = optarg]
            /\ Break
            /\ UNCHANGED <<ret, err, out>>
    /\ UNCHANGED <<optv, intents, resources, calls, sigint_calls>>

CaseAfRange ==
    ModeCase("OPT_AF_RANGE", camera_valid_af_range_modes, "af_range_mode",
             "Invalid --autofocus-range value")
CaseAfSpeed ==
    ModeCase("OPT_AF_SPEED", camera_valid_af_speed_modes, "af_speed_mode",
             "Invalid --autofocus-speed value")
CaseAwbMode ==
    ModeCase("OPT_AWB_MODE", camera_valid_awb_modes, "awb_mode",
             "Invalid --awb value")
CaseExpMode ==
    ModeCase("OPT_EXP_MODE", camera_valid_exposure_modes, "exposure_mode",
             "Invalid --exposure value")

\* the range test of a numeric case
OutOfRange(value, range) ==
    FLess(value, range[1]) \/ FGreater(value, range[2])

\* a case of a single float: the range, the field, the option's name
FloatCase(o, range, field, name) ==
    /\ pc = "switch" /\ opt = o
    /\ LET sc == sscanf_f(optarg)
       IN  IF sc.ret # 1
           THEN RejectOption("Invalid --" \o name \o " value - invalid format")
           ELSE IF OutOfRange(sc.v1, range)
           THEN RejectOption("Invalid --" \o name \o " value - out of range")
           ELSE /\ camera_arguments_opts' =
                     [camera_arguments_opts EXCEPT ![field] = sc.v1]
                /\ Break
                /\ UNCHANGED <<ret, err, out>>
    /\ UNCHANGED <<optv, intents, resources, calls, sigint_calls>>

CaseLensPos ==
    FloatCase("OPT_LENS_POS", camera_valid_lens_pos_range, "lens_position",
              "lens-position")
CaseBrightness ==
    FloatCase("OPT_BRIGHTNS", camera_valid_brightness_range, "brightness",
              "brightness")
CaseContrast ==
    FloatCase("OPT_CONTRAST", camera_valid_contrast_range, "contrast",
              "contrast")
CaseSaturation ==
    FloatCase("OPT_SATURATN", camera_valid_saturation_range, "saturation",
              "saturation")
CaseSharpness ==
    FloatCase("OPT_SHRPNESS", camera_valid_sharpness_range, "sharpness",
              "sharpness")

CaseColGain ==
    /\ pc = "switch" /\ opt = "OPT_COL_GAIN"
    /\ LET sc == sscanf_ff(optarg)
       IN  IF sc.ret # 2
           THEN RejectOption("Invalid --colour-gains value - invalid format")
           ELSE IF \/ OutOfRange(sc.v1, camera_valid_col_gain_range)
                   \/ OutOfRange(sc.v2, camera_valid_col_gain_range)
           THEN RejectOption("Invalid --colour-gains value - out of range")
           ELSE /\ camera_arguments_opts' =
                     [camera_arguments_opts EXCEPT !.colour_gain_r = sc.v1,
                                                   !.colour_gain_b = sc.v2]
                /\ Break
                /\ UNCHANGED <<ret, err, out>>
    /\ UNCHANGED <<optv, intents, resources, calls, sigint_calls>>

CaseDbgReport ==
    /\ pc = "switch" /\ opt = "OPT_DBG_RPRT"
    /\ camera_arguments_opts' =
         [camera_arguments_opts EXCEPT !.debug_report_enabled = 1]
    /\ Break
    /\ UNCHANGED <<optv, intents, resources, ret, logs>>

CaseDevice ==
    /\ pc = "switch" /\ opt = "d"
    /\ cap_device' = optarg
    /\ Break
    /\ UNCHANGED <<optv, function, camera, img_path, slideshow_dir,
                   camera_arguments_opts, resources, ret, logs>>

CaseImage ==
    /\ pc = "switch" /\ opt = "i"
    /\ img_path' = optarg
    /\ Break
    /\ UNCHANGED <<optv, function, camera, cap_device, slideshow_dir,
                   camera_arguments_opts, resources, ret, logs>>

CaseSlideshow ==
    /\ pc = "switch" /\ opt = "s"
    /\ slideshow_dir' = optarg
    /\ Break
    /\ UNCHANGED <<optv, function, camera, cap_device, img_path,
                   camera_arguments_opts, resources, ret, logs>>

CaseHelp ==
    /\ pc = "switch" /\ opt = "h"
    /\ err' = err \o <<"usage">>
    /\ Return(0, "help")
    /\ UNCHANGED <<optv, intents, camera_arguments_opts, resources, ret,
                   calls, sigint_calls, out>>

CaseDefault ==
    /\ pc = "switch" /\ opt = "?"
    /\ err' = err \o <<"usage">>
    /\ Return(1, "default")
    /\ UNCHANGED <<optv, intents, camera_arguments_opts, resources, ret,
                   calls, sigint_calls, out>>

\* ------------------------------------------------------------- collaborators
\* the event context, the function configuration, the backends and the stream
\* live outside main.c; what main() relies on is their interface
events_init(e) == [state |-> "init", done |-> FALSE]
events_stop(e) == [e EXCEPT !.done = TRUE]
events_cleanup(e) == [e EXCEPT !.state = "cleaned"]
\* events_loop returns once a stop was requested
events_loop_returns(e) == e.done

Call(fn, arg) == [fn |-> fn, arg |-> arg]

\* ------------------------------------------------------------- acquisition
SetFunction ==
    /\ pc = "set_function"
    /\ \E positional \in {NULL, <<"u", "v", "c", ".", "0">>} :
          function' = IF positional # NULL THEN positional ELSE function
    /\ pc' = "parse_function"
    /\ UNCHANGED <<optv, camera, cap_device, img_path, slideshow_dir,
                   camera_arguments_opts, resources, exitv, logs>>

\* ParseFunction were the test of the two paths made before the function
\* configuration is resolved
ParseFunction_ConflictFirst ==
    /\ pc = "parse_function"
    /\ IF cap_device # NULL /\ img_path # NULL
       THEN /\ out' = out \o <<"Both capture device and still image specified",
                               "Please specify only one">>
            /\ Return(1, "conflict")
            /\ UNCHANGED <<fc, calls>>
       ELSE \E got \in {NULL, Ptr("fc")} :
              /\ fc' = got
              /\ calls' = Append(calls,
                                 Call("configfs_parse_uvc_function", function))
              /\ IF got = NULL
                 THEN /\ out' = Append(out, "Failed to identify function configuration")
                      /\ Return(1, "no_function")
                 ELSE /\ pc' = "check_conflict"
                      /\ UNCHANGED <<out, exit_status, exit_at>>
    /\ UNCHANGED <<optv, intents, camera_arguments_opts, stream, src, events,
                   sigint_events, sigint_armed, ret, sigint_calls, err>>

ParseFunction ==
    /\ pc = "parse_function"
    /\ \E got \in {NULL, Ptr("fc")} :
          /\ fc' = got
          /\ calls' = Append(calls, Call("configfs_parse_uvc_function", function))
          /\ IF got = NULL
             THEN /\ out' = Append(out, "Failed to identify function configuration")
                  /\ Return(1, "no_function")
             ELSE /\ pc' = "check_conflict"
                  /\ UNCHANGED <<out, exit_status, exit_at>>
    /\ UNCHANGED <<optv, intents, camera_arguments_opts, stream, src, events,
                   sigint_events, sigint_armed, ret, sigint_calls, err>>

\* CheckConflict were the test of the two paths left out
CheckConflict_NoTest ==
    /\ pc = "check_conflict"
    /\ pc' = "events_init"
    /\ UNCHANGED <<optv, intents, camera_arguments_opts, resources, exitv, logs>>

CheckConflict ==
    /\ pc = "check_conflict"
    /\ IF cap_device # NULL /\ img_path # NULL
       THEN /\ out' = out \o <<"Both capture device and still image specified",
                               "Please specify only one">>
            /\ Return(1, "conflict")
       ELSE /\ pc' = "events_init"
            /\ UNCHANGED <<out, exit_status, exit_at>>
    /\ UNCHANGED <<optv, intents, camera_arguments_opts, resources, ret,
                   calls, sigint_calls, err>>

EventsInit ==
    /\ pc = "events_init"
    /\ events' = events_init(events)
    /\ calls' = Append(calls, Call("events_init", Ptr("events")))
    /\ pc' = "set_sigint_events"
    /\ UNCHANGED <<optv, intents, camera_arguments_opts, fc, stream, src,
                   sigint_events, sigint_armed, exitv, sigint_calls, err, out>>

\* SetSigintEvents were the assignment of the static pointer left out
SetSigintEvents_NoAssign ==
    /\ pc = "set_sigint_events"
    /\ pc' = "signal"
    /\ UNCHANGED <<optv, intents, camera_arguments_opts, resources, exitv, logs>>

SetSigintEvents ==
    /\ pc = "set_sigint_events"
    /\ sigint_events' = Ptr("events")
    /\ pc' = "signal"
    /\ UNCHANGED <<optv, intents, camera_arguments_opts, fc, stream, src,
                   events, sigint_armed, exitv, logs>>

Signal ==
    /\ pc = "signal"
    /\ sigint_armed' = TRUE
    /\ pc' = "create"
    /\ UNCHANGED <<optv, intents, camera_arguments_opts, fc, stream, src,
                   events, sigint_events, exitv, logs>>

\* CreateSource were the controls applied to whichever source was created
CreateSource_ControlsAlways ==
    /\ pc = "create"
    /\ \E ok \in BOOLEAN :
        LET Made(h) == IF ok THEN h ELSE NULL
            Made2(fn, arg, h) ==
                /\ src' = Made(h)
                /\ calls' = calls \o
                      <<Call(fn, arg),
                        Call("libcamera_source_set_controls", Made(h))>>
        IN  IF cap_device # NULL
            THEN Made2("v4l2_video_source_create", cap_device, Ptr("v4l2_source"))
            ELSE IF camera # NULL
            THEN Made2("libcamera_source_create", camera, Ptr("libcamera_source"))
            ELSE IF img_path # NULL
            THEN Made2("jpg_video_source_create", img_path, Ptr("jpg_source"))
            ELSE IF slideshow_dir # NULL
            THEN Made2("slideshow_video_source_create", slideshow_dir,
                       Ptr("slideshow_source"))
            ELSE Made2("test_video_source_create", NULL, Ptr("test_source"))
    /\ pc' = "check_src"
    /\ UNCHANGED <<optv, intents, camera_arguments_opts, fc, stream, events,
                   sigint_events, sigint_armed, exitv, sigint_calls, err, out>>

\* CreateSource were the camera tested before the capture device
CreateSource_CameraFirst ==
    /\ pc = "create"
    /\ \E ok \in BOOLEAN :
        LET Made(h) == IF ok THEN h ELSE NULL
        IN  IF camera # NULL
            THEN /\ src' = Made(Ptr("libcamera_source"))
                 /\ calls' = calls \o
                      <<Call("libcamera_source_create", camera),
                        Call("libcamera_source_set_controls", Made(Ptr("libcamera_source")))>>
            ELSE IF cap_device # NULL
            THEN /\ src' = Made(Ptr("v4l2_source"))
                 /\ calls' = Append(calls,
                                Call("v4l2_video_source_create", cap_device))
            ELSE IF img_path # NULL
            THEN /\ src' = Made(Ptr("jpg_source"))
                 /\ calls' = Append(calls,
                                Call("jpg_video_source_create", img_path))
            ELSE IF slideshow_dir # NULL
            THEN /\ src' = Made(Ptr("slideshow_source"))
                 /\ calls' = Append(calls,
                                Call("slideshow_video_source_create", slideshow_dir))
            ELSE /\ src' = Made(Ptr("test_source"))
                 /\ calls' = Append(calls, Call("test_video_source_create", NULL))
    /\ pc' = "check_src"
    /\ UNCHANGED <<optv, intents, camera_arguments_opts, fc, stream, events,
                   sigint_events, sigint_armed, exitv, sigint_calls, err, out>>

\* src = <backend>_create(...): the handle, or NULL when the backend fails
CreateSource ==
    /\ pc = "create"
    /\ \E ok \in BOOLEAN :
        LET Made(h) == IF ok THEN h ELSE NULL
        IN  IF cap_device # NULL
            THEN /\ src' = Made(Ptr("v4l2_source"))
                 /\ calls' = Append(calls,
                                Call("v4l2_video_source_create", cap_device))
            ELSE IF camera # NULL
            THEN /\ src' = Made(Ptr("libcamera_source"))
                 /\ calls' = calls \o
                      <<Call("libcamera_source_create", camera),
                        Call("libcamera_source_set_controls", Made(Ptr("libcamera_source")))>>
            ELSE IF img_path # NULL
            THEN /\ src' = Made(Ptr("jpg_source"))
                 /\ calls' = Append(calls,
                                Call("jpg_video_source_create", img_path))
            ELSE IF slideshow_dir # NULL
            THEN /\ src' = Made(Ptr("slideshow_source"))
                 /\ calls' = Append(calls,
                                Call("slideshow_video_source_create", slideshow_dir))
            ELSE /\ src' = Made(Ptr("test_source"))
                 /\ calls' = Append(calls, Call("test_video_source_create", NULL))
    /\ pc' = "check_src"
    /\ UNCHANGED <<optv, intents, camera_arguments_opts, fc, stream, events,
                   sigint_events, sigint_armed, exitv, sigint_calls, err, out>>

\* CheckSrc were ret left as it is when the create call failed
CheckSrc_KeepsRet ==
    /\ pc = "check_src"
    /\ ret' = ret
    /\ pc' = IF src = NULL THEN "done" ELSE "init_v4l2"
    /\ UNCHANGED <<optv, intents, camera_arguments_opts, resources,
                   exit_status, exit_at, logs>>

CheckSrc ==
    /\ pc = "check_src"
    /\ IF src = NULL
       THEN ret' = 1 /\ pc' = "done"
       ELSE ret' = ret /\ pc' = "init_v4l2"
    /\ UNCHANGED <<optv, intents, camera_arguments_opts, resources,
                   exit_status, exit_at, logs>>

InitV4l2 ==
    /\ pc = "init_v4l2"
    /\ calls' = IF cap_device # NULL
                THEN Append(calls, Call("v4l2_video_source_init", src))
                ELSE calls
    /\ pc' = "init_libcamera"
    /\ UNCHANGED <<optv, intents, camera_arguments_opts, resources, exitv,
                   sigint_calls, err, out>>

InitLibcamera ==
    /\ pc = "init_libcamera"
    /\ calls' = IF camera # NULL
                THEN Append(calls, Call("libcamera_source_init", src))
                ELSE calls
    /\ pc' = "stream_new"
    /\ UNCHANGED <<optv, intents, camera_arguments_opts, resources, exitv,
                   sigint_calls, err, out>>

\* StreamNew were the failure to return at once instead of going to done
StreamNew_ReturnsOnFailure ==
    /\ pc = "stream_new"
    /\ \E got \in {NULL, Ptr("stream")} :
          /\ stream' = got
          /\ calls' = Append(calls, Call("uvc_stream_new", fc))
          /\ IF got = NULL
             THEN ret' = 1 /\ Return(1, "end")
             ELSE ret' = ret /\ pc' = "stream_setup"
                  /\ UNCHANGED <<exit_status, exit_at>>
    /\ UNCHANGED <<optv, intents, camera_arguments_opts, fc, src, events,
                   sigint_events, sigint_armed, sigint_calls, err, out>>

StreamNew ==
    /\ pc = "stream_new"
    /\ \E got \in {NULL, Ptr("stream")} :
          /\ stream' = got
          /\ calls' = Append(calls, Call("uvc_stream_new", fc))
          /\ IF got = NULL
             THEN ret' = 1 /\ pc' = "done"
             ELSE ret' = ret /\ pc' = "stream_setup"
    /\ UNCHANGED <<optv, intents, camera_arguments_opts, fc, src, events,
                   sigint_events, sigint_armed, exit_status, exit_at,
                   sigint_calls, err, out>>

StreamSetup ==
    /\ pc = "stream_setup"
    /\ calls' = calls \o <<Call("uvc_stream_set_event_handler", stream),
                           Call("uvc_stream_set_video_source", stream),
                           Call("uvc_stream_init_uvc", stream)>>
    /\ pc' = "events_loop"
    /\ UNCHANGED <<optv, intents, camera_arguments_opts, resources, exitv,
                   sigint_calls, err, out>>

\* ------------------------------------------------------------- main loop
EventsLoopEnter ==
    /\ pc = "events_loop"
    /\ calls' = Append(calls, Call("events_loop", Ptr("events")))
    /\ pc' = "in_loop"
    /\ UNCHANGED <<optv, intents, camera_arguments_opts, resources, exitv,
                   sigint_calls, err, out>>

EventsLoopReturn ==
    /\ pc = "in_loop"
    /\ events_loop_returns(events)
    /\ pc' = "done"
    /\ UNCHANGED <<optv, intents, camera_arguments_opts, resources, exitv, logs>>

\* ------------------------------------------------------------- teardown
\* StreamDelete were the source destroyed before the stream is deleted
StreamDelete_SourceFirst ==
    /\ pc = "done"
    /\ calls' = calls \o <<Call("video_source_destroy", src),
                           Call("uvc_stream_delete", stream)>>
    /\ pc' = "events_cleanup"
    /\ UNCHANGED <<optv, intents, camera_arguments_opts, resources, exitv,
                   sigint_calls, err, out>>

StreamDelete ==
    /\ pc = "done"
    /\ calls' = Append(calls, Call("uvc_stream_delete", stream))
    /\ pc' = "destroy_src"
    /\ UNCHANGED <<optv, intents, camera_arguments_opts, resources, exitv,
                   sigint_calls, err, out>>

SourceDestroy ==
    /\ pc = "destroy_src"
    /\ calls' = Append(calls, Call("video_source_destroy", src))
    /\ pc' = "events_cleanup"
    /\ UNCHANGED <<optv, intents, camera_arguments_opts, resources, exitv,
                   sigint_calls, err, out>>

EventsCleanup ==
    /\ pc = "events_cleanup"
    /\ events' = events_cleanup(events)
    /\ calls' = Append(calls, Call("events_cleanup", Ptr("events")))
    /\ pc' = "free_function"
    /\ UNCHANGED <<optv, intents, camera_arguments_opts, fc, stream, src,
                   sigint_events, sigint_armed, exitv, sigint_calls, err, out>>

FreeFunction ==
    /\ pc = "free_function"
    /\ calls' = Append(calls, Call("configfs_free_uvc_function", fc))
    /\ pc' = "return"
    /\ UNCHANGED <<optv, intents, camera_arguments_opts, resources, exitv,
                   sigint_calls, err, out>>

ReturnRet ==
    /\ pc = "return"
    /\ Return(ret, "end")
    /\ UNCHANGED <<optv, intents, camera_arguments_opts, resources, ret, logs>>

\* ------------------------------------------------------------- SIGINT
\* The handler runs between any two statements of main() once it is
\* installed. (Before that SIGINT has its default action: the process is
\* killed and main() never returns.)
SigintHandler ==
    /\ sigint_armed
    /\ pc # "exited"
    /\ Len(sigint_calls) < MaxSignals
    /\ events' = events_stop(events)
    /\ sigint_calls' =
         Append(sigint_calls,
                [fn |-> "events_stop", arg |-> sigint_events,
                 ctx |-> events.state, in_loop |-> pc = "in_loop"])
    /\ UNCHANGED <<pc, optv, intents, camera_arguments_opts, fc, stream, src,
                   sigint_events, sigint_armed, exitv, calls, err, out>>

\* the statements of main()
Main ==
    \/ Getopt
    \/ CaseCamera \/ CaseAfRange \/ CaseAfSpeed \/ CaseLensPos \/ CaseAwbMode
    \/ CaseColGain \/ CaseExpMode \/ CaseBrightness \/ CaseContrast
    \/ CaseSaturation \/ CaseSharpness \/ CaseDbgReport
    \/ CaseDevice \/ CaseImage \/ CaseSlideshow \/ CaseHelp \/ CaseDefault
    \/ SetFunction \/ ParseFunction \/ CheckConflict
    \/ EventsInit \/ SetSigintEvents \/ Signal
    \/ CreateSource \/ CheckSrc \/ InitV4l2 \/ InitLibcamera
    \/ StreamNew \/ StreamSetup
    \/ EventsLoopEnter \/ EventsLoopReturn
    \/ StreamDelete \/ SourceDestroy \/ EventsCleanup \/ FreeFunction
    \/ ReturnRet

Next == Main \/ SigintHandler

Spec == Init /\ [][Next]_vars

\* the option loop alone, over every text
OptNext ==
    \/ GetoptAny
    \/ CaseCamera \/ CaseAfRange \/ CaseAfSpeed \/ CaseLensPos \/ CaseAwbMode
    \/ CaseColGain \/ CaseExpMode \/ CaseBrightness \/ CaseContrast
    \/ CaseSaturation \/ CaseSharpness \/ CaseDbgReport
    \/ CaseDevice \/ CaseImage \/ CaseSlideshow \/ CaseHelp \/ CaseDefault

OptSpec == Init /\ [][OptNext]_vars

\* ------------------------------------------------------------- observations
Exited == pc = "exited"

\* how many times main() called fn with argument arg
Count(fn, arg) ==
    Cardinality({i \in DOMAIN calls : calls[i].fn = fn /\ calls[i].arg = arg})

Called(fn) == \E i \in DOMAIN calls : calls[i].fn = fn

CreateFns ==
    {"v4l2_video_source_create", "libcamera_source_create",
     "jpg_video_source_create", "slideshow_video_source_create",
     "test_video_source_create"}

IsCreate(c) == c.fn \in CreateFns
Creates == SelectSeq(calls, IsCreate)

FcAcquired == fc = Ptr("fc")
EventsAcquired == events.state # "uninit"
SrcAcquired == src # NULL
StreamAcquired == stream # NULL

\* ------------------------------------------------------------- C1
\* C1: when main() has terminated, each of the function configuration, the
\* event context, the video source and the stream that was acquired has been
\* released exactly once, and none that was never acquired has been released
\* as if it were live.
C1_AcquiredReleasedOnce ==
    Exited =>
      /\ IF FcAcquired
         THEN Count("configfs_free_uvc_function", fc) = 1
         ELSE ~Called("configfs_free_uvc_function")
      /\ IF EventsAcquired
         THEN Count("events_cleanup", Ptr("events")) = 1
         ELSE ~Called("events_cleanup")
      /\ IF SrcAcquired
         THEN Count("video_source_destroy", src) = 1
         ELSE \A i \in DOMAIN calls :
                 calls[i].fn = "video_source_destroy" => calls[i].arg = NULL
      /\ IF StreamAcquired
         THEN Count("uvc_stream_delete", stream) = 1
         ELSE \A i \in DOMAIN calls :
                 calls[i].fn = "uvc_stream_delete" => calls[i].arg = NULL

\* ------------------------------------------------------------- C2
\* the resource an acquisition or a release is about
ResourceOf(fn) ==
    CASE fn \in {"configfs_parse_uvc_function", "configfs_free_uvc_function"}
           -> "function configuration"
      [] fn \in {"events_init", "events_cleanup"} -> "event context"
      [] fn \in CreateFns \cup {"video_source_destroy"} -> "video source"
      [] fn \in {"uvc_stream_new", "uvc_stream_delete"} -> "stream"
      [] OTHER -> "none"

IsAcquire(c) ==
    c.fn \in CreateFns \cup
            {"configfs_parse_uvc_function", "events_init", "uvc_stream_new"}
IsRelease(c) ==
    c.fn \in {"configfs_free_uvc_function", "events_cleanup",
              "video_source_destroy", "uvc_stream_delete"}

Resources(cs) == [i \in DOMAIN cs |-> ResourceOf(cs[i].fn)]
Reverse(q) == [i \in DOMAIN q |-> q[Len(q) + 1 - i]]

AcquireOrder == Resources(SelectSeq(calls, IsAcquire))
ReleaseOrder == Resources(SelectSeq(calls, IsRelease))

InterruptedInLoop == \E i \in DOMAIN sigint_calls : sigint_calls[i].in_loop

OrderedTeardown ==
    /\ ReleaseOrder =
         <<"stream", "video source", "event context", "function configuration">>
    /\ ReleaseOrder = Reverse(AcquireOrder)
    /\ Count("uvc_stream_delete", stream) = 1 /\ StreamAcquired
    /\ Count("video_source_destroy", src) = 1 /\ SrcAcquired
    /\ Count("events_cleanup", Ptr("events")) = 1
    /\ Count("configfs_free_uvc_function", fc) = 1 /\ FcAcquired

IsPrefix(p, q) ==
    /\ Len(p) <= Len(q)
    /\ \A i \in DOMAIN p : p[i] = q[i]

\* C2: once an interrupt was delivered while the event loop runs, main() is
\* in the loop, which then returns, or past it; until it has terminated it
\* has a next statement to execute (from the loop on no statement is executed
\* twice, so it terminates); the releases made so far are the first ones of
\* stream, video source, event context, function configuration; and when it
\* has terminated the four have been released in that order, the reverse of
\* their acquisition, each once.
C2_InterruptOrderedTeardown ==
    InterruptedInLoop =>
      /\ pc \in {"in_loop", "done", "destroy_src", "events_cleanup",
                 "free_function", "return", "exited"}
      /\ Exited \/ ENABLED Main
      /\ IsPrefix(ReleaseOrder,
                  <<"stream", "video source", "event context",
                    "function configuration">>)
      /\ Exited => (exit_at = "end" /\ OrderedTeardown)

C2_Witness ==
    /\ InterruptedInLoop /\ Exited /\ OrderedTeardown
    /\ exit_status = 0

\* ------------------------------------------------------------- C3
\* C3: a video source handle that a create call returned is passed to
\* video_source_destroy never more than once, and exactly once by the time
\* main() has returned, on the stream-construction failure path and on the
\* clean shutdown path alike.
C3_SourceDestroyedOnce ==
    SrcAcquired =>
      /\ Count("video_source_destroy", src) <= 1
      /\ Exited => Count("video_source_destroy", src) = 1

C3_Witness ==
    /\ Exited /\ SrcAcquired /\ ~StreamAcquired
    /\ Count("video_source_destroy", src) = 1

\* ------------------------------------------------------------- C4
BothDeviceAndImage == cap_device # NULL /\ img_path # NULL

Supplied(fn) ==
    CASE fn = "v4l2_video_source_create" -> cap_device # NULL
      [] fn = "libcamera_source_create" -> camera # NULL
      [] fn = "jpg_video_source_create" -> img_path # NULL
      [] fn = "slideshow_video_source_create" -> slideshow_dir # NULL
      [] fn = "test_video_source_create" -> TRUE

Priority(fn) ==
    CASE fn = "v4l2_video_source_create" -> 1
      [] fn = "libcamera_source_create" -> 2
      [] fn = "jpg_video_source_create" -> 3
      [] fn = "slideshow_video_source_create" -> 4
      [] fn = "test_video_source_create" -> 5

PastCreate ==
    \/ pc \in {"check_src", "init_v4l2", "init_libcamera", "stream_new",
               "stream_setup", "events_loop", "in_loop", "done",
               "destroy_src", "events_cleanup", "free_function", "return"}
    \/ Exited /\ exit_at = "end"

\* C5: a run that is not rejected invokes exactly one backend create
\* function, that of the supplied intent of highest priority in the order
\* capture-device, camera-pipeline, still-image, slideshow-directory, test
\* pattern; with no intent supplied it is the test pattern's.
C5_OneBackendByPriority ==
    /\ Len(Creates) <= 1
    /\ PastCreate => Len(Creates) = 1
    /\ \A i \in DOMAIN Creates :
          /\ Supplied(Creates[i].fn)
          /\ \A f \in CreateFns :
                Priority(f) < Priority(Creates[i].fn) => ~Supplied(f)

C5_Witness ==
    /\ camera # NULL /\ img_path # NULL /\ slideshow_dir # NULL
    /\ cap_device = NULL
    /\ Len(Creates) = 1 /\ Creates[1].fn = "libcamera_source_create"

\* ------------------------------------------------------------- C6
TuningSupplied ==
    \/ \E r \in argv_strings : r.opt \in TuningOpts
    \/ \E r \in argv_numerics : r.opt \in TuningOpts

\* C6 as stated: a command line with a tuning option and no camera
\* identifier does not proceed to backend creation.
C6_TuningNeedsCamera ==
    (TuningSupplied /\ camera = NULL) => Creates = <<>>

\* C6 as amended: the tuning options reach a backend, through
\* libcamera_source_set_controls, only when a camera identifier is supplied
\* and no capture device is; a command line with tuning options and no camera
\* identifier proceeds to the creation of a backend other than the camera
\* pipeline, and the options have no effect.
C6_TuningOnlyReachesCamera ==
    /\ Called("libcamera_source_set_controls") =>
          /\ camera # NULL /\ cap_device = NULL
          /\ Count("libcamera_source_set_controls", src) = 1
          /\ Called("libcamera_source_create")
    /\ (TuningSupplied /\ camera = NULL /\ PastCreate) =>
          /\ Len(Creates) = 1
          /\ Creates[1].fn # "libcamera_source_create"
          /\ ~Called("libcamera_source_set_controls")

C6_Witness ==
    /\ TuningSupplied /\ camera = NULL
    /\ camera_arguments_opts.brightness = Num(1 * Scale)
    /\ Len(Creates) = 1 /\ Exited /\ exit_status = 0

\* ------------------------------------------------------------- C7
\* the diagnostics of an option's validation
Diagnostics(o) ==
    CASE o = "OPT_AF_RANGE" -> {"Invalid --autofocus-range value"}
      [] o = "OPT_AF_SPEED" -> {"Invalid --autofocus-speed value"}
      [] o = "OPT_AWB_MODE" -> {"Invalid --awb value"}
      [] o = "OPT_EXP_MODE" -> {"Invalid --exposure value"}
      [] o = "OPT_LENS_POS" ->
           {"Invalid --lens-position value - invalid format",
            "Invalid --lens-position value - out of range"}
      [] o = "OPT_COL_GAIN" ->
           {"Invalid --colour-gains value - invalid format",
            "Invalid --colour-gains value - out of range"}
      [] o = "OPT_BRIGHTNS" ->
           {"Invalid --brightness value - invalid format",
            "Invalid --brightness value - out of range"}
      [] o = "OPT_CONTRAST" ->
           {"Invalid --contrast value - invalid format",
            "Invalid --contrast value - out of range"}
      [] o = "OPT_SATURATN" ->
           {"Invalid --saturation value - invalid format",
            "Invalid --saturation value - out of range"}
      [] o = "OPT_SHRPNESS" ->
           {"Invalid --sharpness value - invalid format",
            "Invalid --sharpness value - out of range"}
      [] OTHER -> {}

HelpShown == exit_at = "help"

LoopReturned ==
    /\ exit_at = "end"
    /\ Called("events_loop")
    /\ SrcAcquired /\ StreamAcquired

\* C8: main() returns 0 exactly when the run ended by the help display or by
\* the event loop returning after the source and the stream were created,
\* and 1 on a selection conflict, a validation failure, an unknown option, a
\* function-configuration resolution failure, a backend create failure and a
\* stream-construction failure.
C8_ExitStatus ==
    Exited =>
      /\ exit_status \in {0, 1}
      /\ exit_status = 0 <=> (HelpShown \/ LoopReturned)
      /\ exit_at \in {"conflict", "validation", "default", "no_function"}
            => exit_status = 1
      /\ (exit_at = "end" /\ (~SrcAcquired \/ ~StreamAcquired))
            => exit_status = 1

C8_Witness ==
    /\ Exited /\ LoopReturned /\ exit_status = 0
    /\ cap_device # NULL

\* ------------------------------------------------------------- C9, C10
\* the valid range of a numeric control, in whole units
ValidRange(o) ==
    CASE o = "OPT_LENS_POS" -> <<0, 32>>
      [] o = "OPT_COL_GAIN" -> <<0, 32>>
      [] o = "OPT_BRIGHTNS" -> <<-1, 1>>
      [] o = "OPT_CONTRAST" -> <<0, 32>>
      [] o = "OPT_SATURATN" -> <<0, 32>>
      [] o = "OPT_SHRPNESS" -> <<0, 16>>

\* a value that lies within the closed range: a number, not below the lower
\* bound and not above the upper one
InClosedRange(v, r) ==
    /\ v.k = "num"
    /\ r[1] * Scale <= v.n
    /\ v.n <= r[2] * Scale

NumericOpts == FloatOpts \cup {"OPT_COL_GAIN"}

\* the required number of floats parse and each lies within the range
NumericValid(o, t) ==
    IF o = "OPT_COL_GAIN"
    THEN LET sc == sscanf_ff(t)
         IN  /\ sc.ret = 2
             /\ InClosedRange(sc.v1, ValidRange(o))
             /\ InClosedRange(sc.v2, ValidRange(o))
    ELSE LET sc == sscanf_f(t)
         IN  sc.ret = 1 /\ InClosedRange(sc.v1, ValidRange(o))

AllowList(o) ==
    CASE o = "OPT_AF_RANGE" -> {s_normal, s_macro}
      [] o = "OPT_AF_SPEED" -> {s_normal, s_fast}
      [] o = "OPT_AWB_MODE" ->
           {s_auto, s_incandescent, s_tungsten, s_fluorescent, s_indoor,
            s_daylight, s_cloudy}
      [] o = "OPT_EXP_MODE" -> {s_normal, s_short, s_sport, s_long}

InvalidTuningSeen ==
    \/ \E r \in argv_strings : r.opt \in ModeOpts /\ r.arg \notin AllowList(r.opt)
    \/ \E r \in argv_numerics : ~NumericValid(r.opt, r.arg)

NothingAcquired ==
    /\ fc = Ptr("uninitialized") /\ events.state = "uninit"
    /\ sigint_events = NULL /\ ~sigint_armed
    /\ src = NULL /\ stream = NULL
    /\ calls = <<>>

\* C9: in a run that has read a tuning option with an invalid value, no
\* resource is acquired and no backend is created: no function-configuration
\* resolution, no event-context initialization, no signal handler, no create
\* call.
C9_InvalidValueAcquiresNothing ==
    InvalidTuningSeen => NothingAcquired

\* C10: a value supplied for a bounded numeric control is accepted if and
\* only if the required number of floats parse and every parsed value lies
\* within the closed range of the control.
C10_AcceptedIffInRange ==
    (opt \in NumericOpts /\ pc # "switch") =>
      (pc = "getopt" <=> NumericValid(opt, optarg))

\* ------------------------------------------------------------- C11
\* the fields of the Control Set that a numeric option writes
FieldsOf(o) ==
    CASE o = "OPT_LENS_POS" -> {"lens_position"}
      [] o = "OPT_COL_GAIN" -> {"colour_gain_r", "colour_gain_b"}
      [] o = "OPT_BRIGHTNS" -> {"brightness"}
      [] o = "OPT_CONTRAST" -> {"contrast"}
      [] o = "OPT_SATURATN" -> {"saturation"}
      [] o = "OPT_SHRPNESS" -> {"sharpness"}

OptionRead(o) == \E r \in argv_numerics : r.opt = o

\* the Control Set has been handed to the camera-pipeline backend
ControlsHanded == Called("libcamera_source_set_controls")

\* C11: in the Control Set handed to the camera-pipeline backend a numeric
\* field is unset (NaN) if and only if its option was never supplied; every
\* supplied and accepted value leaves the field set.
C11_UnsetIffNeverSupplied ==
    ControlsHanded =>
      \A o \in NumericOpts : \A f \in FieldsOf(o) :
         IsNaN(camera_arguments_opts[f]) <=> ~OptionRead(o)

\* ------------------------------------------------------------- C12
\* the field of the Control Set that an enumerated option writes
ModeField(o) ==
    CASE o = "OPT_AF_RANGE" -> "af_range_mode"
      [] o = "OPT_AF_SPEED" -> "af_speed_mode"
      [] o = "OPT_AWB_MODE" -> "awb_mode"
      [] o = "OPT_EXP_MODE" -> "exposure_mode"

\* C12: once the case of an enumerated option has run, the option was
\* accepted exactly when its text equals, character by character, a member
\* of the allow-list of its control; an accepted text is stored in the
\* field of the control as it was given, and any other text ends the run by
\* a validation failure with the field left as it was.
C12_ModeAcceptedIffListed ==
    (opt \in ModeOpts /\ pc # "switch") =>
      /\ pc = "getopt" <=> optarg \in AllowList(opt)
      /\ pc = "getopt" => camera_arguments_opts[ModeField(opt)] = optarg
      /\ pc # "getopt" =>
            /\ Exited /\ exit_at = "validation" /\ exit_status = 1
            /\ camera_arguments_opts[ModeField(opt)] # optarg

C12_Witness ==
    /\ opt = "OPT_EXP_MODE" /\ pc = "getopt" /\ optarg = s_sport
    /\ camera_arguments_opts.exposure_mode = s_sport
    /\ \E r \in argv_strings :
          r.opt = "OPT_AWB_MODE" /\ r.arg = camera_arguments_opts.awb_mode

\* ------------------------------------------------------------- C13
\* the handle that the create function of a backend returns
HandleOf(fn) ==
    CASE fn = "v4l2_video_source_create" -> Ptr("v4l2_source")
      [] fn = "libcamera_source_create" -> Ptr("libcamera_source")
      [] fn = "jpg_video_source_create" -> Ptr("jpg_source")
      [] fn = "slideshow_video_source_create" -> Ptr("slideshow_source")
      [] fn = "test_video_source_create" -> Ptr("test_source")

\* the backend an operation belongs to, named by its create function
BackendOf(fn) ==
    CASE fn = "v4l2_video_source_init" -> "v4l2_video_source_create"
      [] fn \in {"libcamera_source_set_controls", "libcamera_source_init"}
           -> "libcamera_source_create"
      [] OTHER -> "none"

IsBackendOp(c) == BackendOf(c.fn) # "none"

\* C13: every backend-specific operation invoked on a video source handle
\* (v4l2_video_source_init, libcamera_source_set_controls,
\* libcamera_source_init) belongs to the backend whose create function
\* returned that handle; with both a capture device and a camera supplied no
\* camera-pipeline operation is applied to the hardware-capture handle.
C13_OpsMatchBackend ==
    \A i \in DOMAIN calls :
       (IsBackendOp(calls[i]) /\ calls[i].arg # NULL) =>
          /\ calls[i].arg = HandleOf(BackendOf(calls[i].fn))
          /\ Called(BackendOf(calls[i].fn))

\* ------------------------------------------------------------- C14
\* the create call of the chosen backend was made and returned no handle
CreateFailed == Len(Creates) = 1 /\ src = NULL

\* the calls main() made after the create call
AfterCreate ==
    LET first == CHOOSE i \in DOMAIN calls : IsCreate(calls[i])
    IN  SubSeq(calls, first + 1, Len(calls))

TeardownCalls ==
    <<Call("uvc_stream_delete", NULL), Call("video_source_destroy", NULL),
      Call("events_cleanup", Ptr("events")),
      Call("configfs_free_uvc_function", fc)>>

\* C14: when the create call of the chosen backend returns no handle, every
\* call main() makes afterwards is one of the teardown sequence: neither
\* libcamera_source_set_controls nor an initialize function is invoked, no
\* stream is constructed, the event loop is not entered, and the run ends
\* with status 1 once the teardown sequence has run.
C14_CreateFailureOnlyTeardown ==
    CreateFailed =>
      /\ IsPrefix(AfterCreate, TeardownCalls)
      /\ ~Called("libcamera_source_set_controls")
      /\ ~Called("v4l2_video_source_init") /\ ~Called("libcamera_source_init")
      /\ ~Called("uvc_stream_new") /\ stream = NULL
      /\ ~Called("events_loop")
      /\ Exited => (exit_status = 1 /\ AfterCreate = TeardownCalls)

\* ------------------------------------------------------------- C15
\* what a step of the handler leaves alone: everything but the stop request
\* in the event context and the record of its call
HandlerFrame ==
    UNCHANGED <<pc, optv, intents, camera_arguments_opts, fc, stream, src,
                sigint_events, sigint_armed, exitv, calls, err, out>>

\* the reference is written once: from NULL to the initialized event
\* context, while the handler is not armed
AssignedOnceBeforeArming ==
    sigint_events' # sigint_events =>
      /\ sigint_events = NULL /\ sigint_events' = Ptr("events")
      /\ events.state = "init" /\ Called("events_init")
      /\ ~sigint_armed /\ ~sigint_armed'

\* arming happens with the reference already in place, and is not undone
ArmedWithReference ==
    /\ sigint_armed' # sigint_armed =>
          sigint_armed' /\ sigint_events = Ptr("events")
    /\ sigint_armed' => sigint_events' = Ptr("events")

\* a run of the handler is one events_stop on the reference and nothing else
HandlerOnlyStops ==
    sigint_calls' # sigint_calls =>
      /\ Len(sigint_calls') = Len(sigint_calls) + 1
      /\ SubSeq(sigint_calls', 1, Len(sigint_calls)) = sigint_calls
      /\ sigint_calls'[Len(sigint_calls')].fn = "events_stop"
      /\ sigint_calls'[Len(sigint_calls')].arg = Ptr("events")
      /\ events' = events_stop(events)
      /\ HandlerFrame

\* C15: sigint_events is assigned exactly once, to the initialized event
\* context, before the SIGINT handler is armed, and is not reassigned
\* afterwards; the handler does nothing but one events_stop on that
\* reference.
C15_ReferenceSetOnceBeforeArming ==
    [][AssignedOnceBeforeArming /\ ArmedWithReference /\ HandlerOnlyStops]_vars

C15_Witness ==
    /\ sigint_armed /\ sigint_events = Ptr("events")
    /\ Len(sigint_calls) = 1 /\ sigint_calls[1].arg = Ptr("events")
    /\ events.done

\* ------------------------------------------------------------- C16
ConflictDiagnostic ==
    <<"Both capture device and still image specified",
      "Please specify only one">>

GainSet(f) == ~IsNaN(camera_arguments_opts[f])

\* C17: once the case of an option has run, whatever --colour-gains options
\* were read, the two colour-gain fields of the Control Set are both unset
\* or both set.
C17_GainsBothOrNeither ==
    pc # "switch" => (GainSet("colour_gain_r") <=> GainSet("colour_gain_b"))

\* ------------------------------------------------------------- C18
\* C18: while the SIGINT handler is armed the event context it refers to is
\* initialized and not cleaned up, and no run of the handler has called
\* events_stop on a context that events_cleanup had already torn down.
C18_ArmedContextLive ==
    /\ (sigint_armed /\ ~Exited) =>
          sigint_events = Ptr("events") /\ events.state = "init"
    /\ \A i \in DOMAIN sigint_calls : sigint_calls[i].ctx = "init"

=============================================================================
